---- MODULE Spec2Model ----
(***************************************************************************)
(* The cross-filter engine of city_burglary_dashboard.py: the record       *)
(* table df, the filter state held by the Dash components, and the four    *)
(* output callbacks (update_tables, update_lsoa_options,                   *)
(* update_location_options, update_dashboard) plus reset_filters.          *)
(* A component change marks the callbacks that list it as an Input as      *)
(* pending; each callback is its own step and runs its whole body.         *)
(***************************************************************************)
EXTENDS Integers, Sequences, FiniteSets, TLC

VARIABLES
    df,                \* the burglary record table (a sequence of rows)
    loc_vals,          \* location-dropdown value
    lsoa_vals,         \* lsoa-dropdown value
    year_range,        \* year-slider value <<lo, hi>>
    month_range,       \* month-slider value <<lo, hi>>
    forces,            \* force-checklist value
    outcomes,          \* outcome-checklist value
    toggle,            \* toggle-btn n_clicks
    location_options,  \* location-dropdown options (sorted sequence)
    lsoa_options,      \* lsoa-dropdown options (sorted sequence)
    location_table,    \* location-table data: sequence of <<Location, Count>>
    lsoa_table,        \* lsoa-table data: sequence of <<LSOA name, Count>>
    view_label,        \* view-label children
    count_div,         \* count-div children: the number in "Total burglaries: n"
    figure,            \* map-graph figure: the rows handed to scatter_mapbox
    pending,           \* callbacks whose inputs changed and that have not run yet
    tie_order,         \* how the installed numpy quicksort leaves rows of equal Count
    banding            \* ward_kmeans_bands.py: its input, position and results

vars == <<df, loc_vals, lsoa_vals, year_range, month_range, forces, outcomes,
          toggle, location_options, lsoa_options, location_table, lsoa_table,
          view_label, count_div, figure, pending, tie_order, banding>>

filter_vars == <<loc_vals, lsoa_vals, year_range, month_range, forces, outcomes>>

table_outs == <<location_table, lsoa_table>>

dashboard_outs == <<view_label, count_div, figure>>

\* ------------------------------------------------------------------ bounds
MaxClicks == 2

\* ------------------------------------------------------------ absent values
\* pandas NaN in a string column
NaN == "NaN"

\* pandas NaT (errors="coerce"): year and month of an unparseable Month
NaT == 0

\* ------------------------------------------------------------- record table
Row(id, y, m, force, outcome, loc, name, code, lat) ==
    [CrimeID |-> id, Year |-> y, Month |-> m, ReportedBy |-> force,
     Outcome |-> outcome, Location |-> loc, LSOAname |-> name,
     LSOAcode |-> code, Latitude |-> lat]

\* Tables load_and_prepare can return (burglary rows of both forces' files).
\* Two places and two areas over two years, two forces and two outcomes;
\* AreaX holds PlaceA only, AreaY holds PlaceA and PlaceB.
CoverageTable ==
    << Row(1, 2020, 1, "Met",  "Solved",     "PlaceA", "AreaX", "E01", 11),
       Row(2, 2020, 1, "Met",  "Unresolved", "PlaceA", "AreaY", "E02", 12),
       Row(3, 2021, 1, "City", "Solved",     "PlaceB", "AreaY", "E02", 13) >>

\* Rows with absent fields: no place, no area name, an unparseable Month,
\* no outcome; one year, two months, one force.
SparseTable ==
    << Row(1, 2020, 1, "Met", "Solved", "PlaceA", "AreaX", "E01", 21),
       Row(2, 2020, 1, "Met", "Solved", NaN,      "AreaX", "E01", 22),
       Row(3, 2020, 2, "Met", "Solved", "PlaceA", NaN,     "E03", 23),
       Row(4, 2020, 2, "Met", "Solved", "PlaceA", "AreaX", "E01", 24),
       Row(5, NaT,  NaT, "Met", "Solved", "PlaceB", "AreaY", "E02", 25),
       Row(6, 2020, 1, "Met", NaN,      "PlaceB", "AreaY", "E02", 26) >>

\* Two areas that share no place.
DisjointTable ==
    << Row(1, 2020, 1, "Met", "Solved", "PlaceA", "AreaX", "E01", 31),
       Row(2, 2020, 1, "Met", "Solved", "PlaceB", "AreaY", "E02", 32) >>

Datasets == { CoverageTable, SparseTable, DisjointTable }

\* Python's string order on the values that occur in the tables.
Alphabetical ==
    << "AreaX", "AreaY", "AreaZ", "City", "E01", "E02", "E03", "Met",
       "PlaceA", "PlaceB", "PlaceC", "Solved", "Unresolved" >>

Rank(s) == CHOOSE i \in DOMAIN Alphabetical : Alphabetical[i] = s

RECURSIVE sorted(_)
sorted(S) ==
    IF S = {} THEN << >>
    ELSE LET m == CHOOSE x \in S : \A y \in S : Rank(x) <= Rank(y)
         IN  << m >> \o sorted(S \ {m})

RECURSIVE sorted_int(_)
sorted_int(S) ==
    IF S = {} THEN << >>
    ELSE LET m == CHOOSE x \in S : \A y \in S : x <= y
         IN  << m >> \o sorted_int(S \ {m})

Range(s) == { s[i] : i \in DOMAIN s }

\* Series.dropna().unique() of one column, as a set
unique(d, col) == { d[i][col] : i \in DOMAIN d } \ {NaN}

\* slider bounds (module level)
years == sorted_int({ df[i].Year : i \in DOMAIN df } \ {NaT})

months == sorted_int({ df[i].Month : i \in DOMAIN df } \ {NaT})

\* df["Reported by"].unique().tolist()
all_forces == { df[i].ReportedBy : i \in DOMAIN df }

\* sorted(df["Last outcome category"].dropna().unique())
all_outcomes == unique(df, "Outcome")

\* between that lets a missing value through
between_missing_passes(x, lo, hi) == x = NaT \/ (lo <= x /\ x <= hi)

\* Series.between(lo, hi): inclusive, False for a missing value
between(x, lo, hi) == x # NaT /\ lo <= x /\ x <= hi

\* Series.isin(values): False for a missing value
isin(x, values) == x # NaN /\ x \in values

\* ---------------------------------------------------------- pandas helpers
\* the boolean mask every callback builds from the four independent filters
passes(r, yr, mr, fs, os) ==
    /\ between(r.Year, yr[1], yr[2])
    /\ between(r.Month, mr[1], mr[2])
    /\ isin(r.ReportedBy, fs)
    /\ isin(r.Outcome, os)

\* d[mask]: the rows that pass, in table order
independent_filter(d, yr, mr, fs, os) ==
    SelectSeq(d, LAMBDA r : passes(r, yr, mr, fs, os))

\* d[d[col].isin(values)]
where_isin(d, col, values) == SelectSeq(d, LAMBDA r : isin(r[col], values))

\* number of rows of d whose column col holds k
size_of(d, col, k) == Cardinality({ i \in DOMAIN d : d[i][col] = k })

\* d.groupby(col).size().reset_index(name="Count"): one <<key, Count>> row per
\* present key, keys ascending
groupby_size(d, col) ==
    LET keys == sorted(unique(d, col))
    IN  [ i \in DOMAIN keys |-> << keys[i], size_of(d, col, keys[i]) >> ]

\* subset.groupby(key)[other].nunique(), for one present key g
nunique(subset, key, other, g) ==
    Cardinality({ subset[i][other] : i \in { j \in DOMAIN subset : subset[j][key] = g } } \ {NaN})

\* .sort_values(by="Count", ascending=False) with the default kind="quicksort",
\* which is not stable: rows come out in non-increasing Count, rows of equal
\* Count in any order
sort_values(rows) ==
    LET n == Len(rows)
        Perms == { p \in [1..n -> 1..n] : \A i, j \in 1..n : i # j => p[i] # p[j] }
    IN  { [ i \in 1..n |-> rows[p[i]] ] :
            p \in { q \in Perms : \A i, j \in 1..n :
                                    i < j => rows[q[i]][2] >= rows[q[j]][2] } }

\* sort_values as the installed build computes it: the same rows always come
\* out in the same order; equal Counts keep the group order or reverse it
sort_values_build(rows) ==
    CHOOSE t \in sort_values(rows) :
        \A i, j \in DOMAIN t :
            (i < j /\ t[i][2] = t[j][2]) =>
                IF tie_order = "kept" THEN Rank(t[i][1]) < Rank(t[j][1])
                                      ELSE Rank(t[i][1]) > Rank(t[j][1])

\* ------------------------------------------------------------ update_tables
\* valid_lsoas of update_tables when an area qualifies by occurring with one
\* of the selected places
tables_valid_lsoas_any_match(base, locs) ==
    IF locs # {}
    THEN unique(where_isin(base, "Location", locs), "LSOAname")
    ELSE unique(base, "LSOAname")

\* valid_lsoas as update_tables computes it from base
tables_valid_lsoas(base, locs) ==
    IF locs # {}
    THEN LET subset == where_isin(base, "Location", locs)
         IN  { g \in unique(subset, "LSOAname") :
                 nunique(subset, "LSOAname", "Location", g) = Cardinality(locs) }
    ELSE unique(base, "LSOAname")

\* valid_locs as update_tables computes it from base
tables_valid_locs(base, lsoas) ==
    IF lsoas # {}
    THEN LET subset == where_isin(base, "LSOAname", lsoas)
         IN  { g \in unique(subset, "Location") :
                 nunique(subset, "Location", "LSOAname", g) = Cardinality(lsoas) }
    ELSE unique(base, "Location")

\* the rows counted by the location table, before grouping
loc_df(locs, lsoas, yr, mr, fs, os) ==
    LET base == independent_filter(df, yr, mr, fs, os)
    IN  where_isin(base, "Location", tables_valid_locs(base, lsoas))

\* the rows counted by the LSOA table, before grouping
lsoa_df(locs, lsoas, yr, mr, fs, os) ==
    LET base == independent_filter(df, yr, mr, fs, os)
    IN  where_isin(base, "LSOAname", tables_valid_lsoas(base, locs))

\* ------------------------------------------------------- option callbacks
\* update_lsoa_options with the rule weakened to "occurs with at least one
\* selected place"
valid_lsoa_options_any_match(selected_locs, yr, mr, fs, os) ==
    LET d == independent_filter(df, yr, mr, fs, os)
    IN  IF selected_locs # {}
        THEN unique(where_isin(d, "Location", selected_locs), "LSOAname")
        ELSE unique(d, "LSOAname")

\* update_lsoa_options falling back to every area of d when none qualifies
valid_lsoa_options_fallback(selected_locs, yr, mr, fs, os) ==
    LET d == independent_filter(df, yr, mr, fs, os)
        subset == where_isin(d, "Location", selected_locs)
        valid == { g \in unique(subset, "LSOAname") :
                     nunique(subset, "LSOAname", "Location", g)
                        = Cardinality(selected_locs) }
    IN  IF selected_locs # {} /\ valid # {} THEN valid ELSE unique(d, "LSOAname")

\* the values update_lsoa_options returns, before sorting
valid_lsoa_options(selected_locs, yr, mr, fs, os) ==
    LET d == independent_filter(df, yr, mr, fs, os)
    IN  IF selected_locs # {}
        THEN LET subset == where_isin(d, "Location", selected_locs)
             IN  { g \in unique(subset, "LSOAname") :
                     nunique(subset, "LSOAname", "Location", g)
                        = Cardinality(selected_locs) }
        ELSE unique(d, "LSOAname")

\* update_location_options computed on df, the independent filters left out
valid_location_options_unfiltered(selected_lsoas, yr, mr, fs, os) ==
    IF selected_lsoas # {}
    THEN LET subset == where_isin(df, "LSOAname", selected_lsoas)
         IN  { g \in unique(subset, "Location") :
                 nunique(subset, "Location", "LSOAname", g)
                    = Cardinality(selected_lsoas) }
    ELSE unique(df, "Location")

\* the values update_location_options returns, before sorting
valid_location_options(selected_lsoas, yr, mr, fs, os) ==
    LET d == independent_filter(df, yr, mr, fs, os)
    IN  IF selected_lsoas # {}
        THEN LET subset == where_isin(d, "LSOAname", selected_lsoas)
             IN  { g \in unique(subset, "Location") :
                     nunique(subset, "Location", "LSOAname", g)
                        = Cardinality(selected_lsoas) }
        ELSE unique(d, "Location")

\* --------------------------------------------------------- update_dashboard
\* update_dashboard without the "if loc_vals:" / "if lsoa_vals:" guards
dashboard_rows_unguarded(locs, lsoas, yr, mr, fs, os) ==
    independent_filter(
        where_isin(where_isin(df, "Location", locs), "LSOAname", lsoas),
        yr, mr, fs, os)

\* d of update_dashboard: the facet selections, then the independent filters
dashboard_rows(locs, lsoas, yr, mr, fs, os) ==
    LET d1 == IF locs # {} THEN where_isin(df, "Location", locs) ELSE df
        d2 == IF lsoas # {} THEN where_isin(d1, "LSOAname", lsoas) ELSE d1
    IN  independent_filter(d2, yr, mr, fs, os)

\* d[["LSOA code", "Latitude", "Longitude"]].drop_duplicates(subset=["LSOA code"]):
\* the coordinate of the first row of d that carries the code
first_coordinate(d, code) ==
    LET i == CHOOSE j \in DOMAIN d :
                 /\ d[j].LSOAcode = code
                 /\ \A k \in DOMAIN d : d[k].LSOAcode = code => j <= k
    IN  d[i].Latitude

\* keys of d.groupby(["LSOA code", "LSOA name"]): rows missing either are dropped
group_keys(d) ==
    { << d[i].LSOAcode, d[i].LSOAname >> :
        i \in { j \in DOMAIN d : d[j].LSOAcode # NaN /\ d[j].LSOAname # NaN } }

RECURSIVE sorted_keys(_)
sorted_keys(S) ==
    IF S = {} THEN << >>
    ELSE LET m == CHOOSE x \in S : \A y \in S :
                      \/ Rank(x[1]) < Rank(y[1])
                      \/ (x[1] = y[1] /\ Rank(x[2]) <= Rank(y[2]))
         IN  << m >> \o sorted_keys(S \ {m})

\* agg2: group sizes merged with the first-seen coordinate of each code
agg2(d) ==
    LET keys == sorted_keys(group_keys(d))
    IN  [ i \in DOMAIN keys |->
            [ LSOAcode |-> keys[i][1], LSOAname |-> keys[i][2],
              Count |-> Cardinality({ j \in DOMAIN d :
                            d[j].LSOAcode = keys[i][1] /\ d[j].LSOAname = keys[i][2] }),
              Latitude |-> first_coordinate(d, keys[i][1]) ] ]

\* view_text when any click count above zero means Points
view_text_sticky(n_clicks) == IF n_clicks >= 1 THEN "Points" ELSE "Aggregate"

view_text(n_clicks) == IF n_clicks % 2 = 1 THEN "Points" ELSE "Aggregate"

\* the data frame handed to px.scatter_mapbox
map_rows(d, n_clicks) == IF n_clicks % 2 = 0 THEN agg2(d) ELSE d

\* ------------------------------------------------------------------- state
Callbacks ==
    { "update_tables", "update_lsoa_options", "update_location_options",
      "update_dashboard" }

\* callbacks that list the component property as an Input
listeners(prop) ==
    CASE prop = "location-dropdown" ->
            { "update_tables", "update_lsoa_options", "update_dashboard" }
      [] prop = "lsoa-dropdown" ->
            { "update_tables", "update_location_options", "update_dashboard" }
      [] prop = "toggle-btn" -> { "update_tables", "update_dashboard" }
      [] OTHER -> Callbacks

\* what a numpy build can do with equal keys
TieOrders == { "kept", "reversed" }

\* ward_kmeans_bands.py has not been run
NotRun == [ pc |-> "not run", X |-> << >>, best_k |-> 0, band |-> << >> ]

full_year_range == << years[1], years[Len(years)] >>

full_month_range == << months[1], months[Len(months)] >>

Init ==
    /\ df \in Datasets
    /\ loc_vals = {}
    /\ lsoa_vals = {}
    /\ year_range = full_year_range
    /\ month_range = full_month_range
    /\ forces = all_forces
    /\ outcomes = all_outcomes
    /\ toggle = 0
    /\ location_options = sorted(unique(df, "Location"))
    /\ lsoa_options = sorted(unique(df, "LSOAname"))
    /\ location_table = << >>
    /\ lsoa_table = << >>
    /\ view_label = ""
    /\ count_div = 0
    /\ figure = << >>
    /\ pending = Callbacks
    /\ tie_order \in TieOrders
    /\ banding = NotRun

\* ----------------------------------------------------- component changes
\* The analyst changes one component once the page has settled (no callback
\* outstanding). A dropdown lets the analyst pick only among the options it
\* currently shows; a value already picked stays in the value list when the
\* options change, until the analyst removes it.
\* select_location when the dropdown lets any place of df be picked
select_location_unoffered(v) ==
    /\ pending = {}
    /\ v \in unique(df, "Location") \ loc_vals
    /\ loc_vals' = loc_vals \cup {v}
    /\ pending' = listeners("location-dropdown")
    /\ UNCHANGED <<df, tie_order, banding, lsoa_vals, year_range, month_range, forces, outcomes, toggle,
                   location_options, lsoa_options, table_outs, dashboard_outs>>

select_location(v) ==
    /\ pending = {}
    /\ v \in Range(location_options) \ loc_vals
    /\ loc_vals' = loc_vals \cup {v}
    /\ pending' = listeners("location-dropdown")
    /\ UNCHANGED <<df, tie_order, banding, lsoa_vals, year_range, month_range, forces, outcomes, toggle,
                   location_options, lsoa_options, table_outs, dashboard_outs>>

deselect_location(v) ==
    /\ pending = {}
    /\ v \in loc_vals
    /\ loc_vals' = loc_vals \ {v}
    /\ pending' = listeners("location-dropdown")
    /\ UNCHANGED <<df, tie_order, banding, lsoa_vals, year_range, month_range, forces, outcomes, toggle,
                   location_options, lsoa_options, table_outs, dashboard_outs>>

select_lsoa(v) ==
    /\ pending = {}
    /\ v \in Range(lsoa_options) \ lsoa_vals
    /\ lsoa_vals' = lsoa_vals \cup {v}
    /\ pending' = listeners("lsoa-dropdown")
    /\ UNCHANGED <<df, tie_order, banding, loc_vals, year_range, month_range, forces, outcomes, toggle,
                   location_options, lsoa_options, table_outs, dashboard_outs>>

deselect_lsoa(v) ==
    /\ pending = {}
    /\ v \in lsoa_vals
    /\ lsoa_vals' = lsoa_vals \ {v}
    /\ pending' = listeners("lsoa-dropdown")
    /\ UNCHANGED <<df, tie_order, banding, loc_vals, year_range, month_range, forces, outcomes, toggle,
                   location_options, lsoa_options, table_outs, dashboard_outs>>

set_year_range(lo, hi) ==
    /\ pending = {}
    /\ years[1] <= lo /\ lo <= hi /\ hi <= years[Len(years)]
    /\ << lo, hi >> # year_range
    /\ year_range' = << lo, hi >>
    /\ pending' = listeners("year-slider")
    /\ UNCHANGED <<df, tie_order, banding, loc_vals, lsoa_vals, month_range, forces, outcomes, toggle,
                   location_options, lsoa_options, table_outs, dashboard_outs>>

set_month_range(lo, hi) ==
    /\ pending = {}
    /\ months[1] <= lo /\ lo <= hi /\ hi <= months[Len(months)]
    /\ << lo, hi >> # month_range
    /\ month_range' = << lo, hi >>
    /\ pending' = listeners("month-slider")
    /\ UNCHANGED <<df, tie_order, banding, loc_vals, lsoa_vals, year_range, forces, outcomes, toggle,
                   location_options, lsoa_options, table_outs, dashboard_outs>>

\* tick or untick one box of the force checklist
check_force(f) ==
    /\ pending = {}
    /\ f \in all_forces
    /\ forces' = IF f \in forces THEN forces \ {f} ELSE forces \cup {f}
    /\ pending' = listeners("force-checklist")
    /\ UNCHANGED <<df, tie_order, banding, loc_vals, lsoa_vals, year_range, month_range, outcomes, toggle,
                   location_options, lsoa_options, table_outs, dashboard_outs>>

\* tick or untick one box of the outcome checklist
check_outcome(o) ==
    /\ pending = {}
    /\ o \in all_outcomes
    /\ outcomes' = IF o \in outcomes THEN outcomes \ {o} ELSE outcomes \cup {o}
    /\ pending' = listeners("outcome-checklist")
    /\ UNCHANGED <<df, tie_order, banding, loc_vals, lsoa_vals, year_range, month_range, forces, toggle,
                   location_options, lsoa_options, table_outs, dashboard_outs>>

click_toggle ==
    /\ pending = {}
    /\ toggle < MaxClicks
    /\ toggle' = toggle + 1
    /\ pending' = listeners("toggle-btn")
    /\ UNCHANGED <<df, tie_order, banding, filter_vars, location_options, lsoa_options, table_outs,
                   dashboard_outs>>

\* ------------------------------------------------------------- callbacks
\* reset_filters returning the outcome checklist as it stands
reset_filters_keep_outcomes ==
    /\ pending = {}
    /\ loc_vals' = {}
    /\ lsoa_vals' = {}
    /\ year_range' = << years[1], years[Len(years)] >>
    /\ month_range' = << months[1], months[Len(months)] >>
    /\ forces' = all_forces
    /\ pending' = Callbacks
    /\ UNCHANGED <<df, tie_order, banding, outcomes, toggle, location_options, lsoa_options,
                   table_outs, dashboard_outs>>

reset_filters ==
    /\ pending = {}
    /\ loc_vals' = {}
    /\ lsoa_vals' = {}
    /\ year_range' = << years[1], years[Len(years)] >>
    /\ month_range' = << months[1], months[Len(months)] >>
    /\ forces' = all_forces
    /\ outcomes' = all_outcomes
    /\ pending' = Callbacks
    /\ UNCHANGED <<df, tie_order, banding, toggle, location_options, lsoa_options, table_outs,
                   dashboard_outs>>

update_tables ==
    /\ "update_tables" \in pending
    /\ location_table' = sort_values_build(groupby_size(
           loc_df(loc_vals, lsoa_vals, year_range, month_range, forces, outcomes),
           "Location"))
    /\ lsoa_table' = sort_values_build(groupby_size(
           lsoa_df(loc_vals, lsoa_vals, year_range, month_range, forces, outcomes),
           "LSOAname"))
    /\ pending' = pending \ {"update_tables"}
    /\ UNCHANGED <<df, tie_order, banding, filter_vars, toggle, location_options, lsoa_options,
                   dashboard_outs>>

update_lsoa_options ==
    /\ "update_lsoa_options" \in pending
    /\ lsoa_options' = sorted(valid_lsoa_options(loc_vals, year_range, month_range,
                                                 forces, outcomes))
    /\ pending' = pending \ {"update_lsoa_options"}
    /\ UNCHANGED <<df, tie_order, banding, filter_vars, toggle, location_options, table_outs,
                   dashboard_outs>>

update_location_options ==
    /\ "update_location_options" \in pending
    /\ location_options' = sorted(valid_location_options(lsoa_vals, year_range,
                                                         month_range, forces, outcomes))
    /\ pending' = pending \ {"update_location_options"}
    /\ UNCHANGED <<df, tie_order, banding, filter_vars, toggle, lsoa_options, table_outs, dashboard_outs>>

update_dashboard ==
    /\ "update_dashboard" \in pending
    /\ LET d == dashboard_rows(loc_vals, lsoa_vals, year_range, month_range,
                               forces, outcomes)
       IN  /\ count_div' = Len(d)
           /\ view_label' = view_text(toggle)
           /\ figure' = map_rows(d, toggle)
    /\ pending' = pending \ {"update_dashboard"}
    /\ UNCHANGED <<df, tie_order, banding, filter_vars, toggle, location_options, lsoa_options, table_outs>>

Next ==
    \/ \E v \in unique(df, "Location") : select_location(v)
    \/ \E v \in unique(df, "Location") : deselect_location(v)
    \/ \E v \in unique(df, "LSOAname") : select_lsoa(v)
    \/ \E v \in unique(df, "LSOAname") : deselect_lsoa(v)
    \/ \E lo \in Range(years), hi \in Range(years) : set_year_range(lo, hi)
    \/ \E lo \in Range(months), hi \in Range(months) : set_month_range(lo, hi)
    \/ \E f \in all_forces : check_force(f)
    \/ \E o \in all_outcomes : check_outcome(o)
    \/ click_toggle
    \/ reset_filters
    \/ update_tables
    \/ update_lsoa_options
    \/ update_location_options
    \/ update_dashboard

Spec == Init /\ [][Next]_vars

\* every output is what its callback returns for the current component values
rendered ==
    LET d == dashboard_rows(loc_vals, lsoa_vals, year_range, month_range,
                            forces, outcomes)
    IN  /\ location_options = sorted(valid_location_options(lsoa_vals, year_range,
                                          month_range, forces, outcomes))
        /\ lsoa_options = sorted(valid_lsoa_options(loc_vals, year_range,
                                      month_range, forces, outcomes))
        /\ location_table = sort_values_build(groupby_size(
               loc_df(loc_vals, lsoa_vals, year_range, month_range, forces, outcomes),
               "Location"))
        /\ lsoa_table = sort_values_build(groupby_size(
               lsoa_df(loc_vals, lsoa_vals, year_range, month_range, forces, outcomes),
               "LSOAname"))
        /\ count_div = Len(d)
        /\ view_label = view_text(toggle)
        /\ figure = map_rows(d, toggle)

\* the page once the initial calls of the four callbacks have returned
InitLoaded ==
    /\ df \in Datasets
    /\ loc_vals = {}
    /\ lsoa_vals = {}
    /\ year_range = full_year_range
    /\ month_range = full_month_range
    /\ forces = all_forces
    /\ outcomes = all_outcomes
    /\ toggle = 0
    /\ tie_order \in TieOrders
    /\ banding = NotRun
    /\ pending = {}
    /\ rendered

\* the dashboard from the loaded page on
SpecLoaded == InitLoaded /\ [][Next]_vars

\* the settled page with the sliders and checklists in any position and
\* nothing selected in the two dropdowns
InitFacets ==
    /\ df \in Datasets
    /\ loc_vals = {}
    /\ lsoa_vals = {}
    /\ year_range \in { << lo, hi >> : lo \in Range(years), hi \in Range(years) }
    /\ year_range[1] <= year_range[2]
    /\ month_range \in { << lo, hi >> : lo \in Range(months), hi \in Range(months) }
    /\ month_range[1] <= month_range[2]
    /\ forces \in SUBSET all_forces
    /\ outcomes \in SUBSET all_outcomes
    /\ toggle = 0
    /\ tie_order \in TieOrders
    /\ banding = NotRun
    /\ pending = {}
    /\ rendered

\* the analyst works the two dropdowns only
NextFacets ==
    \/ \E v \in unique(df, "Location") : select_location(v)
    \/ \E v \in unique(df, "Location") : deselect_location(v)
    \/ \E v \in unique(df, "LSOAname") : select_lsoa(v)
    \/ \E v \in unique(df, "LSOAname") : deselect_lsoa(v)
    \/ update_tables
    \/ update_lsoa_options
    \/ update_location_options
    \/ update_dashboard

SpecFacets == InitFacets /\ [][NextFacets]_vars

\* =================================================================== claims
\* the records passing the independent filters in the current filter state
base == independent_filter(df, year_range, month_range, forces, outcomes)

\* every place of S_A occurs in at least one base record whose area is b
AreaCovers(b, S_A) ==
    \A p \in S_A : \E i \in DOMAIN base :
        base[i].Location = p /\ base[i].LSOAname = b

\* place p occurs with every area of S_B in base
PlaceCovers(p, S_B) ==
    \A b \in S_B : \E i \in DOMAIN base :
        base[i].Location = p /\ base[i].LSOAname = b

AreaNames == unique(df, "LSOAname") \cup Range(lsoa_options)

PlaceNames == unique(df, "Location") \cup Range(location_options)

Fresh(cb) == cb \notin pending

\* C1: full-coverage rule, both facets: with a non-empty place selection an
\* area name is offered iff every selected place occurs with it in base, and
\* with a non-empty area selection a place is offered iff it occurs with
\* every selected area in base.
C1_FullCoverageRule ==
    /\ (Fresh("update_lsoa_options") /\ loc_vals # {}) =>
          \A b \in AreaNames :
              b \in Range(lsoa_options) <=> AreaCovers(b, loc_vals)
    /\ (Fresh("update_location_options") /\ lsoa_vals # {}) =>
          \A p \in PlaceNames :
              p \in Range(location_options) <=> PlaceCovers(p, lsoa_vals)

\* the spec's example: two places selected, one area that holds only one of
\* them is withheld while an area that holds both is offered
C1_Witness ==
    /\ Fresh("update_lsoa_options")
    /\ Cardinality(loc_vals) = 2
    /\ \E x \in unique(base, "LSOAname") :
          /\ x \notin Range(lsoa_options)
          /\ \E p \in loc_vals : AreaCovers(x, {p})
    /\ \E y \in Range(lsoa_options) : AreaCovers(y, loc_vals)

\* the independent-filter predicate as the spec states it
SpecPasses(r) ==
    /\ r.Year \in year_range[1]..year_range[2]
    /\ r.Month \in month_range[1]..month_range[2]
    /\ (forces = {} \/ r.ReportedBy \in forces)
    /\ (outcomes = {} \/ r.Outcome \in outcomes)

\* C2: a record is in base iff its year and month lie in the inclusive ranges
\* and (the force selection is empty or holds its force) and (the outcome
\* selection is empty or holds its outcome).
C2_IndependentFilter ==
    \A i \in DOMAIN df : (df[i] \in Range(base)) <=> SpecPasses(df[i])

\* the places valid under the full-coverage rule given S_B
SpecValidPlaces ==
    IF lsoa_vals = {} THEN unique(base, "Location")
    ELSE { p \in unique(base, "Location") : PlaceCovers(p, lsoa_vals) }

\* the fully filtered set as the spec defines it; a record without a place
\* names no place that could be invalid, so only a selection removes it
SpecFullyFiltered ==
    SelectSeq(base, LAMBDA r :
        /\ (loc_vals = {} \/ r.Location \in loc_vals)
        /\ (lsoa_vals = {} \/ r.LSOAname \in lsoa_vals)
        /\ (r.Location = NaN \/ r.Location \in SpecValidPlaces))

\* the Count a table shows for value v (0 when it has no row for v)
TableCount(t, v) ==
    IF \E i \in DOMAIN t : t[i][1] = v
    THEN t[CHOOSE i \in DOMAIN t : t[i][1] = v][2]
    ELSE 0

RECURSIVE SumCounts(_)
SumCounts(t) == IF t = << >> THEN 0 ELSE Head(t)[2] + SumCounts(Tail(t))

\* C3: the total, the point payload and both count tables are computed from
\* base restricted to the selected places, the selected areas and the valid
\* places.
C3_FullyFilteredSet ==
    /\ Fresh("update_dashboard") =>
          /\ count_div = Len(SpecFullyFiltered)
          /\ view_label = "Points" => figure = SpecFullyFiltered
    /\ Fresh("update_tables") =>
          /\ \A v \in PlaceNames :
                TableCount(location_table, v)
                    = size_of(SpecFullyFiltered, "Location", v)
          /\ \A v \in AreaNames :
                TableCount(lsoa_table, v)
                    = size_of(SpecFullyFiltered, "LSOAname", v)

\* C4: count conservation: the counts of the place table and the counts of
\* the area table each sum to the total the dashboard reports.
C4_CountConservation ==
    (Fresh("update_tables") /\ Fresh("update_dashboard")) =>
        /\ SumCounts(location_table) = count_div
        /\ SumCounts(lsoa_table) = count_div

\* C5: every offered option can be added to its facet's selection, the other
\* selection and the independent filters unchanged, without emptying the
\* record set the dashboard shows.
C5_OfferedOptionsNonEmpty ==
    /\ Fresh("update_lsoa_options") =>
          \A v \in Range(lsoa_options) :
              Len(dashboard_rows(loc_vals, lsoa_vals \cup {v}, year_range,
                                 month_range, forces, outcomes)) > 0
    /\ Fresh("update_location_options") =>
          \A v \in Range(location_options) :
              Len(dashboard_rows(loc_vals \cup {v}, lsoa_vals, year_range,
                                 month_range, forces, outcomes)) > 0

\* an offered area has just been added to a non-empty area selection while a
\* place is selected, and the dashboard shows records
C5_Witness ==
    /\ pending = {}
    /\ loc_vals # {}
    /\ Cardinality(lsoa_vals) = 2
    /\ lsoa_vals \subseteq Range(lsoa_options)
    /\ count_div > 0

\* C6: with both facet selections empty the place options are the present
\* places of base, the area options the present area names of base, and the
\* dashboard's record set is base.
C6_EmptySelection ==
    (loc_vals = {} /\ lsoa_vals = {}) =>
        /\ Fresh("update_location_options") =>
              Range(location_options)
                  = { base[i].Location : i \in DOMAIN base } \ {NaN}
        /\ Fresh("update_lsoa_options") =>
              Range(lsoa_options)
                  = { base[i].LSOAname : i \in DOMAIN base } \ {NaN}
        /\ Fresh("update_dashboard") =>
              /\ count_div = Len(base)
              /\ view_label = "Points" => figure = base

\* nothing selected, every output recomputed, a base that holds a record
\* without a place and one without an area name, shown as points
C6_Witness ==
    /\ loc_vals = {} /\ lsoa_vals = {}
    /\ pending = {}
    /\ view_label = "Points"
    /\ Len(base) > 0
    /\ \E i \in DOMAIN base : base[i].Location = NaN
    /\ \E i \in DOMAIN base : base[i].LSOAname = NaN

\* C7: when the other facet's selection is non-empty and no candidate meets
\* the full-coverage rule, the option list is empty (no fallback to the
\* distinct values of base).
C7_NoFallback ==
    /\ ( /\ Fresh("update_lsoa_options")
         /\ loc_vals # {}
         /\ ~ \E b \in AreaNames : AreaCovers(b, loc_vals) )
          => lsoa_options = << >>
    /\ ( /\ Fresh("update_location_options")
         /\ lsoa_vals # {}
         /\ ~ \E p \in PlaceNames : PlaceCovers(p, lsoa_vals) )
          => location_options = << >>

\* a contradictory place selection over a base that still has area names,
\* one of the selected places not occurring in base at all
C7_Witness ==
    /\ Fresh("update_lsoa_options")
    /\ loc_vals # {}
    /\ ~ \E b \in AreaNames : AreaCovers(b, loc_vals)
    /\ unique(base, "LSOAname") # {}
    /\ \E p \in loc_vals : p \notin unique(base, "Location")

\* the full-coverage rule leaves a facet without valid options
Contradictory ==
    \/ loc_vals # {} /\ ~ \E b \in AreaNames : AreaCovers(b, loc_vals)
    \/ lsoa_vals # {} /\ ~ \E p \in PlaceNames : PlaceCovers(p, lsoa_vals)

\* C8: whenever the full-coverage rule yields no valid option for a facet,
\* the dashboard's record set is empty: total 0 and an empty map payload.
C8_ContradictionEmptiesResult ==
    (Fresh("update_dashboard") /\ Contradictory) =>
        count_div = 0 /\ figure = << >>

\* rows in descending Count, equal Counts in ascending alphabetical order,
\* no value twice
Ordered(t) ==
    \A i, j \in DOMAIN t :
        i < j => \/ t[i][2] > t[j][2]
                 \/ t[i][2] = t[j][2] /\ Rank(t[i][1]) < Rank(t[j][1])

\* C9: each count table has one row per value, ordered by descending count,
\* ties in ascending alphabetical order of the value.
C9_TableOrdering ==
    Fresh("update_tables") => Ordered(location_table) /\ Ordered(lsoa_table)

RECURSIVE SumAggregate(_)
SumAggregate(rows) ==
    IF rows = << >> THEN 0 ELSE Head(rows).Count + SumAggregate(Tail(rows))

\* C10: in aggregate mode the payload holds exactly one row per area code
\* present in the dashboard's record set, with that code's record count and
\* the coordinate of its first record, so the row counts sum to the total.
C10_AggregatePayload ==
    (Fresh("update_dashboard") /\ view_label = "Aggregate") =>
        LET d == dashboard_rows(loc_vals, lsoa_vals, year_range, month_range,
                                forces, outcomes)
            codes == { d[i].LSOAcode : i \in DOMAIN d } \ {NaN}
        IN  /\ \A c \in codes :
                  /\ Cardinality({ k \in DOMAIN figure : figure[k].LSOAcode = c }) = 1
                  /\ \A k \in DOMAIN figure : figure[k].LSOAcode = c =>
                        /\ figure[k].Count = size_of(d, "LSOAcode", c)
                        /\ figure[k].Latitude = first_coordinate(d, c)
            /\ \A k \in DOMAIN figure : figure[k].LSOAcode \in codes
            /\ SumAggregate(figure) = count_div

\* the record has no usable timestamp
NoTimestamp(r) == r.Year = NaT \/ r.Month = NaT

\* no record with a timestamp carries the value v in column col
OnlyUntimed(col, v) ==
    \A i \in DOMAIN df : df[i][col] = v => NoTimestamp(df[i])

\* C11: a record without a timestamp is never in base, whatever the year
\* and month ranges, and so reaches no option list, count table or payload.
C11_MissingTimestampExcluded ==
    /\ \A i \in DOMAIN df : NoTimestamp(df[i]) => df[i] \notin Range(base)
    /\ (Fresh("update_dashboard") /\ view_label = "Points") =>
          \A k \in DOMAIN figure : ~ NoTimestamp(figure[k])
    /\ Fresh("update_dashboard") =>
          count_div <= Cardinality({ i \in DOMAIN df : ~ NoTimestamp(df[i]) })
    /\ Fresh("update_location_options") =>
          \A v \in Range(location_options) : ~ OnlyUntimed("Location", v)
    /\ Fresh("update_lsoa_options") =>
          \A v \in Range(lsoa_options) : ~ OnlyUntimed("LSOAname", v)
    /\ Fresh("update_tables") =>
          /\ \A k \in DOMAIN location_table :
                ~ OnlyUntimed("Location", location_table[k][1])
          /\ \A k \in DOMAIN lsoa_table :
                ~ OnlyUntimed("LSOAname", lsoa_table[k][1])

\* the table holds a record without a timestamp, every filter is at its
\* default (full ranges, every box ticked) and every output is recomputed
C11_Witness ==
    /\ \E i \in DOMAIN df : NoTimestamp(df[i]) /\ df[i].Outcome \in outcomes
                            /\ df[i].ReportedBy \in forces
    /\ year_range = full_year_range
    /\ month_range = full_month_range
    /\ pending = {}
    /\ view_label = "Points"
    /\ count_div > 0

\* the boxes the outcome checklist offers
outcome_options == all_outcomes

\* C12: an absent outcome is a category of its own: when some record has no
\* outcome the checklist offers a bucket for it, and with every offered box
\* ticked (the default and the reset state) such a record passes the outcome
\* filter, so it is in base if its timestamp and force pass.
C12_MissingOutcomeBucket ==
    \A i \in DOMAIN df :
        df[i].Outcome = NaN =>
            /\ \E o \in outcome_options : o = NaN
            /\ ( /\ outcomes = outcome_options
                 /\ between(df[i].Year, year_range[1], year_range[2])
                 /\ between(df[i].Month, month_range[1], month_range[2])
                 /\ df[i].ReportedBy \in forces )
                  => df[i] \in Range(base)

\* what the rendering layer shows
shown == <<location_options, lsoa_options, location_table, lsoa_table,
           view_label, count_div, figure>>

\* C13: after a change of filter state the rendering layer sees the prior
\* view or the new one, never a mix: whenever what is shown changes, all of
\* it corresponds to the current filter state.
C13_AtomicRecomputation == [][ shown' # shown => rendered' ]_vars

\* the loaded page of SpecLoaded is a state the dashboard reaches from Init
LoadedReached == pending = {} /\ loc_vals = {} /\ lsoa_vals = {} /\ toggle = 0
                 /\ year_range = full_year_range /\ month_range = full_month_range
                 /\ forces = all_forces /\ outcomes = all_outcomes /\ rendered

\* ==================================================== ward_kmeans_bands.py
\* bounds of the banding runs
MaxWards == 4

MaxK == 3

\* a "Burglary Count" cell that pd.to_numeric cannot parse (coerced to NaN)
NotNumeric == -1

\* rows ward_burglary_counts.csv can hold
CsvRows ==
    { [Ward |-> "Unknown", Count |-> 2],
      [Ward |-> "WardA", Count |-> 1],
      [Ward |-> "WardB", Count |-> 6],
      [Ward |-> "WardC", Count |-> NotNumeric] }

CsvFiles == UNION { [1..n -> CsvRows] : n \in 0..MaxWards }

\* ------------------------------------------------------- exact fractions
Abs(x) == IF x < 0 THEN -x ELSE x

RECURSIVE GCD(_, _)
GCD(a, b) == IF b = 0 THEN a ELSE GCD(b, a % b)

\* a fraction <<numerator, denominator>> in lowest terms, denominator > 0
Q(n, d) ==
    LET g == GCD(Abs(n), d)
    IN  IF g = 0 THEN << 0, 1 >> ELSE << n \div g, d \div g >>

QAdd(a, b) == Q(a[1] * b[2] + b[1] * a[2], a[2] * b[2])

QSub(a, b) == Q(a[1] * b[2] - b[1] * a[2], a[2] * b[2])

\* a / b for b > 0
QDiv(a, b) == Q(a[1] * b[2], a[2] * b[1])

QLess(a, b) == a[1] * b[2] < b[1] * a[2]

QLeq(a, b) == a[1] * b[2] <= b[1] * a[2]

QMax(a, b) == IF QLess(a, b) THEN b ELSE a

RECURSIVE QSum(_, _)
\* sum of f[i] over the index set I
QSum(f, I) ==
    IF I = {} THEN << 0, 1 >>
    ELSE LET i == CHOOSE j \in I : TRUE
         IN  QAdd(f[i], QSum(f, I \ {i}))

RECURSIVE IntSum(_, _)
IntSum(f, I) ==
    IF I = {} THEN 0
    ELSE LET i == CHOOSE j \in I : TRUE
         IN  f[i] + IntSum(f, I \ {i})

\* ------------------------------------------------------------------ KMeans
\* rows of X labelled c
members(labels, c) == { i \in DOMAIN labels : labels[i] = c }

used(labels) == { labels[i] : i \in DOMAIN labels }

\* |x - centre|
distance(x, centre) == Q(Abs(x * centre[2] - centre[1]), centre[2])

\* KMeans(n_clusters=k, random_state=0).fit(X): the results a run can end in.
\* labels_ puts every row with a nearest centre (equal counts together, and
\* of two equal centres the first), cluster_centers_ are the means of the
\* clusters; with fewer distinct counts than k the spare centres sit on a
\* row and stay without rows.  No result (ValueError) when there are fewer
\* rows than clusters.
KMeansFits(X, k) ==
    IF Len(X) < k THEN {}
    ELSE
      LET n == Len(X)
          distinct == Cardinality(Range(X))
          Labelings ==
            { l \in [1..n -> 1..k] :
                /\ Cardinality(used(l)) = IF distinct < k THEN distinct ELSE k
                /\ \A i, j \in 1..n : X[i] = X[j] => l[i] = l[j] }
          centres(l, u) ==
            [ c \in 1..k |->
                IF c \in used(l)
                THEN Q(IntSum(X, members(l, c)), Cardinality(members(l, c)))
                ELSE << X[u[c]], 1 >> ]
          Candidates ==
            UNION { { [labels |-> l, centers |-> centres(l, u)] :
                        u \in [ (1..k) \ used(l) -> 1..n ] } : l \in Labelings }
      IN  { r \in Candidates :
              \A i \in 1..n, c \in 1..k :
                  /\ QLeq(distance(X[i], r.centers[r.labels[i]]),
                          distance(X[i], r.centers[c]))
                  /\ r.centers[c] = r.centers[r.labels[i]] => r.labels[i] <= c }

\* kmeans.inertia_: sum of squared distances to the assigned centre
inertia(X, fit) ==
    QSum([ i \in DOMAIN X |->
             LET c == fit.centers[fit.labels[i]]
                 e == X[i] * c[2] - c[1]
             IN  Q(e * e, c[2] * c[2]) ],
         DOMAIN X)

\* silhouette_score raises unless 2 <= number of labels <= n_samples - 1
silhouette_defined(X, labels) ==
    /\ 2 <= Cardinality(used(labels))
    /\ Cardinality(used(labels)) <= Len(X) - 1

\* mean distance from row i to the rows in J
mean_distance(X, i, J) ==
    Q(IntSum([ j \in DOMAIN X |-> Abs(X[i] - X[j]) ], J), Cardinality(J))

\* silhouette coefficient of row i
silhouette_sample(X, labels, i) ==
    LET own == members(labels, labels[i])
        others == used(labels) \ {labels[i]}
        a == mean_distance(X, i, own \ {i})
        bs == { mean_distance(X, i, members(labels, c)) : c \in others }
        b == CHOOSE x \in bs : \A y \in bs : QLeq(x, y)
    IN  IF Cardinality(own) = 1 THEN << 0, 1 >>
        ELSE QDiv(QSub(b, a), QMax(a, b))

\* silhouette_score(X, labels): the mean over the rows
silhouette_score(X, labels) ==
    QDiv(QSum([ i \in DOMAIN X |-> silhouette_sample(X, labels, i) ], DOMAIN X),
         << Len(X), 1 >>)

\* np.nan in the silhouettes list
nan == << 0, 0 >>

\* ks[int(np.nanargmax(silhouettes))]: the first k with the largest score
\* that is not nan; 0 stands for the ValueError of an all-nan list
nanargmax(ks, silhouettes) ==
    LET scored == { k \in ks : silhouettes[k] # nan }
    IN  IF scored = {} THEN 0
        ELSE CHOOSE k \in scored :
                /\ \A j \in scored : QLeq(silhouettes[j], silhouettes[k])
                /\ \A j \in scored : silhouettes[j] = silhouettes[k] => k <= j

\* argsort(centroids): the cluster numbers by ascending centroid; equal
\* centroids come out in either order
argsort(centroids) ==
    LET k == Len(centroids)
    IN  { order \in [1..k -> 1..k] :
            /\ \A p, q \in 1..k : p # q => order[p] # order[q]
            /\ \A p, q \in 1..k :
                 p < q => QLeq(centroids[order[p]], centroids[order[q]]) }

\* mapping = {old: new for new, old in enumerate(order)} with the bug of
\* reading the order as the mapping: cluster c gets the band order[c]
band_of_index(order, c) == order[c]

\* mapping[c] + 1: the position of cluster c in the order, the i of "Band i"
band_of(order, c) == CHOOSE p \in DOMAIN order : order[p] = c

\* the k values the search tries
ks(b) == b.min_k .. b.max_k

\* one pass of the loop of find_optimal_k for k: it raises when KMeans has no
\* result or silhouette_score refuses the labels
loop_raises(X, k) ==
    \/ KMeansFits(X, k) = {}
    \/ /\ k > 1
       /\ Len(X) >= k
       /\ \E fit \in KMeansFits(X, k) : ~ silhouette_defined(X, fit.labels)

\* the inertia and silhouette appended for k, one pair per possible fit
loop_scores(X, k) ==
    { [ inertia |-> inertia(X, fit),
        silhouette |-> IF k > 1 /\ Len(X) >= k
                       THEN silhouette_score(X, fit.labels)
                       ELSE nan ] : fit \in KMeansFits(X, k) }

RECURSIVE loop_runs(_, _, _)
\* the lists a complete loop over lo..hi can build, as functions of k
loop_runs(X, lo, hi) ==
    IF hi < lo THEN { << >> }
    ELSE { run @@ (hi :> score) :
             run \in loop_runs(X, lo, hi - 1), score \in loop_scores(X, hi) }

\* X = df[['Burglary Count']].values
counts(rows) == [ i \in DOMAIN rows |-> rows[i].Count ]

\* a run of main() that has read nothing yet
Started(csv, min_k, max_k) ==
    [ pc |-> "start", df |-> csv, min_k |-> min_k, max_k |-> max_k,
      best_k |-> 0, inertias |-> << >>, silhouettes |-> << >>,
      cluster |-> << >>, centroids |-> << >>, band |-> << >>,
      error |-> "" ]

\* main(): read the count table, drop the 'Unknown' ward, coerce the counts
main_load ==
    /\ banding.pc = "start"
    /\ LET known == SelectSeq(banding.df, LAMBDA r : r.Ward # "Unknown")
           coerced == [ i \in DOMAIN known |->
                          [ known[i] EXCEPT !.Count =
                              IF @ = NotNumeric THEN 0 ELSE @ ] ]
       IN  banding' = [ banding EXCEPT !.pc = "loaded", !.df = coerced ]
    /\ UNCHANGED <<df, tie_order, filter_vars, toggle, location_options,
                   lsoa_options, table_outs, dashboard_outs, pending>>

\* find_optimal_k(X, min_k, max_k): an exception of sklearn or numpy ends
\* the run of main()
find_optimal_k ==
    /\ banding.pc = "loaded"
    /\ LET X == counts(banding.df)
       IN  IF \E k \in ks(banding) : loop_raises(X, k)
           THEN banding' = [ banding EXCEPT !.pc = "failed",
                                            !.error = "ValueError" ]
           ELSE \E run \in loop_runs(X, banding.min_k, banding.max_k) :
                  LET silhouettes == [ k \in ks(banding) |-> run[k].silhouette ]
                      best == nanargmax(ks(banding), silhouettes)
                  IN  IF best = 0
                      THEN banding' = [ banding EXCEPT !.pc = "failed",
                                                       !.error = "ValueError" ]
                      ELSE banding' =
                             [ banding EXCEPT
                                 !.pc = "searched",
                                 !.best_k = best,
                                 !.inertias =
                                     [ k \in ks(banding) |-> run[k].inertia ],
                                 !.silhouettes = silhouettes ]
    /\ UNCHANGED <<df, tie_order, filter_vars, toggle, location_options,
                   lsoa_options, table_outs, dashboard_outs, pending>>

\* assign_kmeans_bands(df, best_k) and the save of the banded table
assign_kmeans_bands ==
    /\ banding.pc = "searched"
    /\ \E fit \in KMeansFits(counts(banding.df), banding.best_k) :
         \E order \in argsort(fit.centers) :
           banding' = [ banding EXCEPT
                          !.pc = "banded",
                          !.cluster = fit.labels,
                          !.centroids = fit.centers,
                          !.band = [ i \in DOMAIN fit.labels |->
                                       band_of(order, fit.labels[i]) ] ]
    /\ UNCHANGED <<df, tie_order, filter_vars, toggle, location_options,
                   lsoa_options, table_outs, dashboard_outs, pending>>

\* the banding script runs on its own: the dashboard is not started
BandInit ==
    /\ df = << >>
    /\ loc_vals = {}
    /\ lsoa_vals = {}
    /\ year_range = << 0, 0 >>
    /\ month_range = << 0, 0 >>
    /\ forces = {}
    /\ outcomes = {}
    /\ toggle = 0
    /\ location_options = << >>
    /\ lsoa_options = << >>
    /\ location_table = << >>
    /\ lsoa_table = << >>
    /\ view_label = ""
    /\ count_div = 0
    /\ figure = << >>
    /\ pending = {}
    /\ tie_order = "kept"
    /\ banding \in { Started(csv, min_k, max_k) :
                       csv \in CsvFiles, min_k \in 1..MaxK, max_k \in 1..MaxK }
    /\ banding.min_k <= banding.max_k

BandNext ==
    \/ main_load
    \/ find_optimal_k
    \/ assign_kmeans_bands

BandSpec == BandInit /\ [][BandNext]_vars

\* ------------------------------------------------------------ C14 .. C16
\* the search of find_optimal_k is over
search_over == banding.pc \in { "searched", "banded", "failed" }

\* number of rows the module clusters
n_samples == Len(banding.df)

\* a k whose silhouette the specification calls defined
ScoreDefined(k) == k > 1 /\ n_samples >= k

\* C14: best-k selection. Once the search is over, it has not failed when
\* some k of [min_k, max_k] has a defined silhouette (k > 1 and at least k
\* samples), and the k it returns has a defined silhouette that is maximal
\* among the k with a defined silhouette; a k without one carries nan, not 0.
C14_BestKSelection ==
    search_over =>
        /\ (\E k \in ks(banding) : ScoreDefined(k)) => banding.pc # "failed"
        /\ banding.pc # "failed" =>
             /\ ScoreDefined(banding.best_k)
             /\ \A k \in ks(banding) :
                  IF ScoreDefined(k)
                  THEN /\ banding.silhouettes[k] # nan
                       /\ QLeq(banding.silhouettes[k],
                               banding.silhouettes[banding.best_k])
                  ELSE banding.silhouettes[k] = nan

\* C15: band ordering. After assign_kmeans_bands every row has one band of
\* 1..best_k, a lower band never has the higher centroid, and a row of a
\* lower band has a strictly smaller count than a row of a higher band.
C15_BandOrdering ==
    banding.pc = "banded" =>
        LET X == counts(banding.df)
        IN  /\ DOMAIN banding.band = DOMAIN X
            /\ \A r \in DOMAIN X : banding.band[r] \in 1..banding.best_k
            /\ \A r, s \in DOMAIN X :
                 banding.band[r] < banding.band[s] =>
                   /\ QLeq(banding.centroids[banding.cluster[r]],
                           banding.centroids[banding.cluster[s]])
                   /\ X[r] < X[s]

\* three bands in use whose numbers differ from the cluster numbers of KMeans
C15_Witness ==
    /\ banding.pc = "banded"
    /\ banding.best_k = 3
    /\ Range(banding.band) = 1..3
    /\ \E r \in DOMAIN banding.band :
         banding.band[banding.band[r]] # banding.cluster[banding.cluster[r]]

\* C16: banding precondition. A finished run has failed, with no best k and
\* no bands, when the table has fewer rows than min_k, and has a best k and
\* one band per row when the table has at least min_k rows.
C16_BandingPrecondition ==
    banding.pc \in { "failed", "banded" } =>
        IF n_samples < banding.min_k
        THEN /\ banding.pc = "failed"
             /\ banding.best_k = 0
             /\ banding.band = << >>
        ELSE /\ banding.pc = "banded"
             /\ banding.best_k \in ks(banding)
             /\ DOMAIN banding.band = DOMAIN banding.df

\* ------------------------------------------------------------------ C17
\* C17: selection consistency. With the sliders and checklists held fixed
\* and the dropdowns worked from empty selections, every selected place is a
\* valid place option given the selected areas, every selected area is a
\* valid area option given the selected places, and when something is
\* selected update_dashboard has at least one record to show.
C17_SelectionConsistency ==
    /\ loc_vals \subseteq valid_location_options(lsoa_vals, year_range,
                                                month_range, forces, outcomes)
    /\ lsoa_vals \subseteq valid_lsoa_options(loc_vals, year_range,
                                             month_range, forces, outcomes)
    /\ (loc_vals # {} \/ lsoa_vals # {}) =>
          dashboard_rows(loc_vals, lsoa_vals, year_range, month_range,
                         forces, outcomes) # << >>

\* a place and an area picked, then one more value picked, the page settled
C17_Witness ==
    /\ pending = {}
    /\ loc_vals # {}
    /\ lsoa_vals # {}
    /\ Cardinality(loc_vals) + Cardinality(lsoa_vals) >= 3
    /\ count_div > 0

\* ------------------------------------------------------------------ C18
\* the view mode after the given number of Toggle View clicks
ViewOf(clicks) == IF clicks % 2 = 0 THEN "Aggregate" ELSE "Points"

\* C18: view-mode toggle. The click count starts at 0 (Aggregate); a step
\* that changes it adds one click and leaves the filter state and the total
\* alone; a step that changes the filter state (a filter, a selection, Reset
\* Filters) leaves the click count alone; and whenever update_dashboard has
\* returned, the label and the map payload are those of the parity of the
\* click count and the total is that of the filter state.
C18_ViewModeToggle ==
    /\ toggle = 0
    /\ [][ /\ toggle' # toggle =>
                /\ toggle' = toggle + 1
                /\ filter_vars' = filter_vars
                /\ count_div' = count_div
           /\ filter_vars' # filter_vars => toggle' = toggle
           /\ "update_dashboard" \notin pending' =>
                LET d == dashboard_rows(loc_vals', lsoa_vals', year_range',
                                        month_range', forces', outcomes')
                IN  /\ view_label' = ViewOf(toggle')
                    /\ count_div' = Len(d)
                    /\ figure' = IF ViewOf(toggle') = "Aggregate"
                                 THEN agg2(d) ELSE d
         ]_vars

\* two clicks made and rendered, with a place selected
C18_Witness ==
    /\ toggle = 2
    /\ pending = {}
    /\ loc_vals # {}
    /\ view_label = "Aggregate"

\* ------------------------------------------------------------------ C19
\* the filter state of the initial layout
InitialFilters ==
    /\ loc_vals = {}
    /\ lsoa_vals = {}
    /\ year_range = full_year_range
    /\ month_range = full_month_range
    /\ forces = all_forces
    /\ outcomes = all_outcomes

\* the option lists, count tables and total of the initial page
InitialOutputs ==
    LET full == independent_filter(df, full_year_range, full_month_range,
                                   all_forces, all_outcomes)
    IN  /\ location_options = sorted(unique(full, "Location"))
        /\ lsoa_options = sorted(unique(full, "LSOAname"))
        /\ location_table = sort_values_build(groupby_size(full, "Location"))
        /\ lsoa_table = sort_values_build(groupby_size(full, "LSOAname"))
        /\ count_div = Len(full)

\* C19: reset restores the initial filter state. The page starts in the
\* initial filter state; a Reset Filters step ends in it from any filter
\* state, and changes no filter when taken in it; and whenever the page has
\* settled in it, the option lists, count tables and total are those of the
\* initial page.
C19_ResetRestoresInitial ==
    /\ InitialFilters
    /\ [][ reset_filters =>
             /\ InitialFilters'
             /\ InitialFilters => filter_vars' = filter_vars ]_vars
    /\ []((pending = {} /\ InitialFilters) => InitialOutputs)

\* Reset Filters has just been clicked on a page that showed a selection:
\* every callback is due and the outputs are still those of the selection
C19_Witness ==
    /\ pending = Callbacks
    /\ InitialFilters
    /\ count_div < SumCounts(location_table)

\* ------------------------------------------------------------------ C20
\* the values a count table has a row for
TableNames(t) == { t[i][1] : i \in DOMAIN t }

\* C20: tables and option lists agree. When update_tables and an option
\* callback have both returned for the current filter state, the areas of
\* the area count table are the area options, and the places of the place
\* count table are the place options.
C20_TablesMatchOptions ==
    /\ (Fresh("update_tables") /\ Fresh("update_lsoa_options")) =>
          TableNames(lsoa_table) = Range(lsoa_options)
    /\ (Fresh("update_tables") /\ Fresh("update_location_options")) =>
          TableNames(location_table) = Range(location_options)

\* the page settled on two selected places that narrow the area list
C20_Witness ==
    /\ pending = {}
    /\ Cardinality(loc_vals) = 2
    /\ lsoa_options # << >>
    /\ Len(lsoa_options) < Cardinality(unique(df, "LSOAname"))
    /\ TableNames(lsoa_table) = Range(lsoa_options)

====
